---- MODULE Spec2Model ----
(***************************************************************************)
(* State machine of the keyword research tool: the App component's state   *)
(* and handlers (src/App.tsx), the KeywordInput form and the generation    *)
(* service client generateKeywordsAndMetrics (src/unnamed/part_001) and    *)
(* the browser's localStorage entry the saved keywords are mirrored into.  *)
(*                                                                         *)
(* JSON text is modelled at token level: an object is the sequence of its  *)
(* <<key, value>> members in property order, an array the sequence of its  *)
(* objects.  In memory an object is a function from property names to      *)
(* values.  A message is the sequence of its fragments, so that            *)
(* String.prototype.includes is membership of a fragment; the empty        *)
(* sequence stands for null (no error).  crypto.randomUUID() is a counter  *)
(* that never repeats a value.                                             *)
(***************************************************************************)
EXTENDS Integers, Sequences, FiniteSets, TLC

VARIABLES
  keywords,                   \* App.tsx:19  generated batch
  savedKeywords,              \* App.tsx:20
  isLoading,                  \* App.tsx:21
  error,                      \* App.tsx:22
  hasApiKey,                  \* App.tsx:23
  selectedDifficultyFilter,   \* App.tsx:24
  selectedVolumeFilter,       \* App.tsx:25
  selectedCompetitionFilter,  \* App.tsx:26
  localStorage,               \* value under LOCAL_STORAGE_KEY, or Absent
  aistudio,                   \* whether window.aistudio exists on this host
  envApiKey,                  \* whether process.env.API_KEY is set
  mounted,                    \* the mount effect (App.tsx:85-89) has run
  checkPending,               \* checkApiKey awaits hasSelectedApiKey()
  selectPending,              \* selectApiKey awaits openSelectKey()
  seedKeyword,                \* part_001:11  KeywordInput's seed field
  numKeywords,                \* part_001:12  KeywordInput's count field
  inputError,                 \* part_001:13  KeywordInput's inline error
  inFlight,                   \* generateKeywordsAndMetrics calls awaiting the service
  callArgs,                   \* the arguments of those calls, in the order they were made
  nextId,                     \* next value crypto.randomUUID() hands out
  failedWrites,               \* history: localStorage writes that threw since the mount
  lastOp,                     \* history: the handler step taken last
  lastArg                     \* history: its argument (record saved, service outcome)

vars == <<keywords, savedKeywords, isLoading, error, hasApiKey,
          selectedDifficultyFilter, selectedVolumeFilter, selectedCompetitionFilter,
          localStorage, aistudio, envApiKey, mounted, checkPending, selectPending,
          seedKeyword, numKeywords, inputError, inFlight, callArgs, nextId,
          failedWrites, lastOp, lastArg>>

(* ------------------------------ bounds -------------------------------- *)
\* Longest array the service returns in the model.
MaxResp == 2
\* Number of ids crypto.randomUUID() hands out before generation stops succeeding.
MaxId == 2
\* Most generation calls awaiting the service at once.
MaxInFlight == 2
\* Most localStorage writes that throw between two page loads.
MaxFailedWrites == 1

(* ----------------------------- constants ------------------------------ *)
NoError == <<>>          \* error === null
NoArg == <<>>

difficultyOptions == <<"All", "Low", "Medium", "High", "Very High">>
searchVolumeOptions == <<"All", "0-10", "10-100", "100-1K", "1K-10K", "10K-100K", "100K+">>
competitionOptions == <<"All", "Low", "Medium", "High", "Very High">>

Range(s) == {s[i] : i \in 1..Len(s)}

\* The options the user picks in the model, out of the options above.
DifficultyChoices == {"All", "Low"}
VolumeChoices == {"All", "0-10"}
CompetitionChoices == {"All", "High"}

\* A text field's content is the sequence of its characters.  What the user
\* types into the seed field in the model: nothing, a blank, a word.
NoText == <<>>
BlankText == <<" ">>
SeedText == <<"s", "e", "o">>
SeedChoices == {NoText, BlankText, SeedText}

\* useState<number>(10) of the count field.
DefaultNumKeywords == 10

\* What the user types into the count field in the model: a number, or text
\* parseInt makes nothing of.
TypedNumber(n) == [isNumber |-> TRUE, n |-> n]
TypedOther == [isNumber |-> FALSE, n |-> 0]
TypedChoices == {TypedNumber(0), TypedNumber(1), TypedNumber(21), TypedOther}

\* The enum lists of the response schema (part_001:151-165).
DifficultyValues == {"Low", "Medium", "High", "Very High"}
SearchVolumeValues == {"0-10", "10-100", "100-1K", "1K-10K", "10K-100K", "100K+"}
CompetitionValues == {"Low", "Medium", "High", "Very High"}

\* The required properties of the response schema.
RequiredFields ==
  <<"keyword", "difficulty", "searchVolume", "competitionLevel",
    "estimatedCpc", "contentIdeas", "serpFeatures">>

\* Property order of a KeywordData object: the parsed properties, then id.
PropertyOrder == RequiredFields \o <<"id">>

(* ----------------------------- messages ------------------------------- *)
NotFoundSignature == "Requested entity was not found."

MsgNoKey == <<"API Key not selected. Please select your API key to proceed.">>
MsgKeyInvalid ==
  <<"API Key invalid or expired, or model not found. Please select your API key again.">>
MsgUnexpected == <<"An unexpected error occurred. Please try again.">>
MsgSelectUnavailable ==
  <<"API Key selection is not available in this environment. Please ensure process.env.API_KEY is set.">>
MsgSelectFailed == <<"Failed to open API key selection. Please try again.">>
MsgServiceKeyIssue ==
  <<"API Key issue or model not found. Please ensure a valid API key is selected.">>
MsgServiceFailed == <<"Failed to fetch keyword data. Please try again.">>

MsgSeedRequired == <<"Please enter a seed keyword.">>
MsgCountRange == <<"Number of keywords must be between 1 and 20.">>

\* String.prototype.includes, on a message held as its fragments.
Includes(msg, fragment) == \E i \in 1..Len(msg) : msg[i] = fragment

(* ------------------------------- JSON --------------------------------- *)
\* A JSON text: type "array" with its objects' member lists, type "object" for a
\* top-level value that is no array, type "garbage" for text that is no JSON.
ArrayText(items) == [type |-> "array", items |-> items]
ObjectText == [type |-> "object", items |-> <<>>]
GarbageText == [type |-> "garbage", items |-> <<>>]
\* localStorage.getItem(LOCAL_STORAGE_KEY) === null
Absent == [type |-> "absent", items |-> <<>>]

\* The object a member list denotes; of two members with one key the last wins.
ParseObject(members) ==
  [k \in {members[i][1] : i \in 1..Len(members)} |->
     LET last == CHOOSE i \in 1..Len(members) :
                   /\ members[i][1] = k
                   /\ \A j \in (i+1)..Len(members) : members[j][1] # k
     IN members[last][2]]

\* JSON.parse: throws (ok = FALSE) on text that is no JSON.
JSONparse(text) ==
  IF text.type = "array"
    THEN [ok |-> TRUE, isArray |-> TRUE,
          value |-> [i \in 1..Len(text.items) |-> ParseObject(text.items[i])]]
    ELSE [ok |-> text.type = "object", isArray |-> FALSE, value |-> <<>>]

StringifyObject(obj) ==
  LET present == SelectSeq(PropertyOrder, LAMBDA k : k \in DOMAIN obj)
  IN [i \in 1..Len(present) |-> <<present[i], obj[present[i]]>>]

\* Mutant: the list is serialized without its last record.
JSONstringifyWithoutLast(list) ==
  ArrayText([i \in 1..(Len(list) - 1) |-> StringifyObject(list[i])])

\* JSON.stringify of an array of objects.
JSONstringify(list) == ArrayText([i \in 1..Len(list) |-> StringifyObject(list[i])])

(* -------------------------- generation service ------------------------ *)
ElementText(kw, d, v, c) ==
  << <<"keyword", kw>>, <<"difficulty", d>>, <<"searchVolume", v>>,
     <<"competitionLevel", c>>, <<"estimatedCpc", "N/A">>,
     <<"contentIdeas", <<"idea">>>>, <<"serpFeatures", <<"Videos">>>> >>

\* Objects the service may put in its array: one that follows the schema, one
\* that lacks serpFeatures and carries an id of its own, one whose difficulty
\* is outside the enumeration.
WellFormedElement == ElementText("k1", "Low", "0-10", "Low")
IncompleteElement ==
  SubSeq(ElementText("k2", "Medium", "1K-10K", "High"), 1, 6) \o << <<"id", 0>> >>
OffEnumElement == ElementText("k3", "Extreme", "10-100", "Very High")

ServiceElements == {WellFormedElement, IncompleteElement, OffEnumElement}

ServiceArrays ==
  UNION {[1..n -> ServiceElements] : n \in 0..MaxResp}

\* What ai.models.generateContent does: it returns a response text, or throws.
TextOutcome(text) ==
  [kind |-> "text", text |-> text, isError |-> FALSE, message |-> <<>>]
ThrowOutcome(isError, message) ==
  [kind |-> "throw", text |-> GarbageText, isError |-> isError, message |-> message]

NotFoundFailure == ThrowOutcome(TRUE, <<"got status: 404. ", NotFoundSignature>>)
OtherFailure == ThrowOutcome(TRUE, <<"fetch failed">>)
NonErrorFailure == ThrowOutcome(FALSE, <<NotFoundSignature>>)

ServiceOutcomes ==
  {TextOutcome(ArrayText(a)) : a \in ServiceArrays}
    \cup {TextOutcome(GarbageText), TextOutcome(ObjectText)}
    \cup {NotFoundFailure, OtherFailure, NonErrorFailure}

\* { ...kw, id: crypto.randomUUID() }
AssignId(kw, id) ==
  [k \in DOMAIN kw \cup {"id"} |-> IF k = "id" THEN id ELSE kw[k]]

\* Mutant: one id is drawn for the whole batch.
MapAssignOneId(parsedKeywords, firstId) ==
  [i \in 1..Len(parsedKeywords) |-> AssignId(parsedKeywords[i], firstId)]

\* parsedKeywords.map(kw => ({...kw, id: crypto.randomUUID()})), the ids taken
\* from firstId on.
MapAssignIds(parsedKeywords, firstId) ==
  [i \in 1..Len(parsedKeywords) |-> AssignId(parsedKeywords[i], firstId + i - 1)]

\* The message the catch block of generateKeywordsAndMetrics rethrows.
RethrownMessage(isError, message) ==
  IF isError /\ Includes(message, NotFoundSignature)
    THEN MsgServiceKeyIssue
    ELSE MsgServiceFailed

\* generateKeywordsAndMetrics on one service outcome: the records it resolves
\* to (ok) or the message of the Error it rejects with.
generateKeywordsAndMetrics(outcome, firstId) ==
  IF outcome.kind = "throw"
    THEN [ok |-> FALSE, value |-> <<>>,
          message |-> RethrownMessage(outcome.isError, outcome.message)]
    ELSE LET parsed == JSONparse(outcome.text)
         IN IF parsed.ok /\ parsed.isArray
              THEN [ok |-> TRUE, value |-> MapAssignIds(parsed.value, firstId),
                    message |-> <<>>]
              \* SyntaxError from JSON.parse, TypeError from .map on a non-array
              ELSE [ok |-> FALSE, value |-> <<>>,
                    message |-> RethrownMessage(TRUE, <<"not valid JSON or not an array">>)]

(* ------------------------------ the form ------------------------------ *)
IsWhiteSpace(c) == c \in {" ", "\t", "\n"}

RECURSIVE TrimStart(_)
TrimStart(text) ==
  IF text # <<>> /\ IsWhiteSpace(Head(text)) THEN TrimStart(Tail(text)) ELSE text

RECURSIVE TrimEnd(_)
TrimEnd(text) ==
  IF text # <<>> /\ IsWhiteSpace(text[Len(text)])
    THEN TrimEnd(SubSeq(text, 1, Len(text) - 1))
    ELSE text

\* Mutant: nothing is trimmed.
TrimNothing(text) == text

\* String.prototype.trim
Trim(text) == TrimEnd(TrimStart(text))

Min(a, b) == IF a < b THEN a ELSE b
Max(a, b) == IF a > b THEN a ELSE b

\* Math.max(1, Math.min(20, parseInt(e.target.value) || 1)): NaN and 0 are falsy.
ClampNumKeywords(typed) ==
  LET parsed == IF typed.isNumber /\ typed.n # 0 THEN typed.n ELSE 1
  IN Max(1, Min(20, parsed))

\* The inline error handleSubmit ends with (part_001:17-25); NoError when the
\* fields pass.
ValidationError(seed, count) ==
  IF Trim(seed) = NoText
    THEN MsgSeedRequired
    ELSE IF count < 1 \/ count > 20 THEN MsgCountRange ELSE NoError

(* --------------------------- derived values --------------------------- *)
\* Mutant: a record passes when any one predicate accepts it.
MatchesAnyFilter(kw, difficultyFilter, volumeFilter, competitionFilter) ==
  \/ difficultyFilter = "All" \/ kw.difficulty = difficultyFilter
  \/ volumeFilter = "All" \/ kw.searchVolume = volumeFilter
  \/ competitionFilter = "All" \/ kw.competitionLevel = competitionFilter

\* The filter callback of filteredSavedKeywords (App.tsx:143-148).
MatchesFilters(kw, difficultyFilter, volumeFilter, competitionFilter) ==
  LET matchesDifficulty == difficultyFilter = "All" \/ kw.difficulty = difficultyFilter
      matchesVolume == volumeFilter = "All" \/ kw.searchVolume = volumeFilter
      matchesCompetition ==
        competitionFilter = "All" \/ kw.competitionLevel = competitionFilter
  IN matchesDifficulty /\ matchesVolume /\ matchesCompetition

filteredSavedKeywords ==
  SelectSeq(savedKeywords,
            LAMBDA kw : MatchesFilters(kw, selectedDifficultyFilter,
                                       selectedVolumeFilter, selectedCompetitionFilter))

\* Mutant: the duplicate check never finds the record.
AlreadySavedNever(prevSaved, keywordToSave) == FALSE

\* prevSaved.some(kw => kw.id === keywordToSave.id)
AlreadySaved(prevSaved, keywordToSave) ==
  \E i \in 1..Len(prevSaved) : prevSaved[i].id = keywordToSave.id

\* Mutant: the record is put in front.
NewSavedInFront(prevSaved, keywordToSave) == <<keywordToSave>> \o prevSaved

\* [...prevSaved, keywordToSave]
NewSaved(prevSaved, keywordToSave) == Append(prevSaved, keywordToSave)

\* loadSavedKeywords: the list the mount effect puts in savedKeywords, given
\* the stored value and the list's initial value.
loadSavedKeywords(stored, initial) ==
  IF stored = Absent
    THEN initial
    ELSE LET parsed == JSONparse(stored)
         IN IF parsed.ok THEN parsed.value ELSE <<>>

\* saveKeywordsToLocalStorage: the stored value after the call; a setItem that
\* throws is caught and leaves the stored value as it was.
saveKeywordsToLocalStorage(keywordsToSave, stored, writeOk) ==
  IF writeOk THEN JSONstringify(keywordsToSave) ELSE stored

\* The outcomes of one localStorage.setItem: it returns, or it throws.
WriteOutcomes == {TRUE} \cup {FALSE : n \in 1..(MaxFailedWrites - failedWrites)}

(* ------------------------------- Init --------------------------------- *)
Init ==
  /\ keywords = <<>>
  /\ savedKeywords = <<>>
  /\ isLoading = FALSE
  /\ error = NoError
  /\ hasApiKey = FALSE
  /\ selectedDifficultyFilter = "All"
  /\ selectedVolumeFilter = "All"
  /\ selectedCompetitionFilter = "All"
  /\ localStorage = Absent
  /\ aistudio \in BOOLEAN
  /\ envApiKey \in BOOLEAN
  \* process.env.API_KEY is read only where window.aistudio is missing (App.tsx:59)
  /\ aistudio => envApiKey
  /\ mounted = FALSE
  /\ checkPending = FALSE
  /\ selectPending = FALSE
  /\ seedKeyword = NoText
  /\ numKeywords = DefaultNumKeywords
  /\ inputError = NoError
  /\ inFlight = 0
  /\ callArgs = <<>>
  /\ nextId = 1
  /\ failedWrites = 0
  /\ lastOp = "init"
  /\ lastArg = NoArg

(* ------------------------------ actions ------------------------------- *)
filters == <<selectedDifficultyFilter, selectedVolumeFilter, selectedCompetitionFilter>>
host == <<aistudio, envApiKey>>
form == <<seedKeyword, numKeywords, inputError>>

\* The mount effect (App.tsx:85-89): loadSavedKeywords(), then checkApiKey()
\* up to its await.
Bootstrap ==
  /\ ~mounted
  /\ mounted' = TRUE
  /\ savedKeywords' = loadSavedKeywords(localStorage, savedKeywords)
  /\ IF aistudio
       THEN checkPending' = TRUE /\ hasApiKey' = hasApiKey
       ELSE checkPending' = FALSE /\ hasApiKey' = envApiKey
  /\ failedWrites' = 0
  /\ lastOp' = "bootstrap"
  /\ lastArg' = NoArg
  /\ UNCHANGED <<keywords, isLoading, error, filters, localStorage, host,
                 selectPending, form, inFlight, callArgs, nextId>>

\* checkApiKey after its await: hasSelectedApiKey() answers, or throws (which
\* sets the flag false, like the answer false).
CheckApiKeyResolve ==
  /\ checkPending
  /\ \E keySelected \in BOOLEAN : hasApiKey' = keySelected
  /\ checkPending' = FALSE
  /\ lastOp' = "checkApiKey"
  /\ lastArg' = NoArg
  /\ UNCHANGED <<keywords, savedKeywords, isLoading, error, filters, localStorage,
                 host, mounted, selectPending, form, inFlight, callArgs, nextId, failedWrites>>

\* selectApiKey up to its await.  Its button is rendered while hasApiKey is
\* false (part_001:38-46).
SelectApiKey ==
  /\ mounted
  /\ ~hasApiKey
  /\ ~selectPending
  /\ IF aistudio
       THEN selectPending' = TRUE /\ error' = error
       ELSE selectPending' = FALSE /\ error' = MsgSelectUnavailable
  /\ lastOp' = "selectApiKey"
  /\ lastArg' = NoArg
  /\ UNCHANGED <<keywords, savedKeywords, isLoading, hasApiKey, filters,
                 localStorage, host, mounted, checkPending, form, inFlight, callArgs, nextId,
                 failedWrites>>

\* selectApiKey after its await: openSelectKey() returned, or threw.
SelectApiKeyResolve ==
  /\ selectPending
  /\ selectPending' = FALSE
  /\ \E opened \in BOOLEAN :
       IF opened
         THEN hasApiKey' = TRUE /\ error' = error
         ELSE hasApiKey' = hasApiKey /\ error' = MsgSelectFailed
  /\ lastOp' = "selectApiKeyResolve"
  /\ lastArg' = NoArg
  /\ UNCHANGED <<keywords, savedKeywords, isLoading, filters, localStorage, host,
                 mounted, checkPending, form, inFlight, callArgs, nextId, failedWrites>>

\* Mutant: the submit control is never disabled.
SubmitAlwaysEnabled == TRUE

\* The submit control is disabled while a generation is loading (part_001:93).
SubmitEnabled == ~isLoading

\* Mutant: the credential check is skipped.
CredentialNeverMissing(credential) == FALSE

\* if (!hasApiKey) in handleGenerateKeywords (App.tsx:97).
CredentialMissing(credential) == ~credential

\* Mutant: the batch on display is kept when a generation is requested.
KeywordsKeptOnRequest == keywords

\* keywords after setKeywords([]) (App.tsx:95).
KeywordsOnRequest == <<>>

\* handleGenerateKeywords(seedKeyword, numKeywords) up to its await
\* (App.tsx:92-102).  lastArg records how many records the batch on display
\* had when the request was turned down for want of a credential.
handleGenerateKeywords(seed, count) ==
  /\ inFlight < MaxInFlight
  /\ keywords' = KeywordsOnRequest
  /\ IF CredentialMissing(hasApiKey)
       THEN /\ error' = MsgNoKey
            /\ isLoading' = FALSE
            /\ inFlight' = inFlight
            /\ callArgs' = callArgs
            /\ lastOp' = "handleGenerateKeywords:noKey"
            /\ lastArg' = [discarded |-> Len(keywords)]
       ELSE /\ error' = NoError
            /\ isLoading' = TRUE
            /\ inFlight' = inFlight + 1
            /\ callArgs' = Append(callArgs, [seedKeyword |-> seed, numKeywords |-> count])
            /\ lastOp' = "handleGenerateKeywords:await"
            /\ lastArg' = NoArg
  /\ UNCHANGED <<savedKeywords, hasApiKey, filters, localStorage, host, mounted,
                 checkPending, selectPending, nextId, failedWrites>>

\* KeywordInput's handleSubmit (part_001:15-27), which calls onSubmit, that is
\* handleGenerateKeywords (App.tsx:156), when the fields pass.  The handler
\* checks the credential itself, so the form is submitted without one too; it
\* is not submitted while a generation is loading.
handleSubmit ==
  /\ mounted
  /\ SubmitEnabled
  /\ inputError' = ValidationError(seedKeyword, numKeywords)
  /\ IF inputError' # NoError
       THEN /\ lastOp' = "handleSubmit:rejected"
            /\ lastArg' = NoArg
            /\ UNCHANGED <<keywords, savedKeywords, isLoading, error, hasApiKey,
                           filters, localStorage, host, mounted, checkPending,
                           selectPending, inFlight, callArgs, nextId, failedWrites>>
       ELSE handleGenerateKeywords(seedKeyword, numKeywords)
  /\ UNCHANGED <<seedKeyword, numKeywords>>

\* The form submitting fields that pass, with the form's own state left out:
\* onSubmit(seedKeyword, numKeywords) (part_001:26) with a seed typed in and the
\* count the field starts with.
onSubmit ==
  /\ mounted
  /\ SubmitEnabled
  /\ ValidationError(SeedText, DefaultNumKeywords) = NoError
  /\ handleGenerateKeywords(SeedText, DefaultNumKeywords)
  /\ UNCHANGED form

\* The onChange handlers of the two fields (part_001:65, 80), which are
\* disabled while a generation is loading (part_001:66, 83).
setSeedKeyword ==
  /\ mounted
  /\ ~isLoading
  /\ \E typed \in SeedChoices : seedKeyword' = typed
  /\ lastOp' = "editForm"
  /\ lastArg' = NoArg
  /\ UNCHANGED <<keywords, savedKeywords, isLoading, error, hasApiKey, filters,
                 localStorage, host, mounted, checkPending, selectPending,
                 numKeywords, inputError, inFlight, callArgs, nextId, failedWrites>>

setNumKeywords ==
  /\ mounted
  /\ ~isLoading
  /\ \E typed \in TypedChoices : numKeywords' = ClampNumKeywords(typed)
  /\ lastOp' = "editForm"
  /\ lastArg' = NoArg
  /\ UNCHANGED <<keywords, savedKeywords, isLoading, error, hasApiKey, filters,
                 localStorage, host, mounted, checkPending, selectPending,
                 seedKeyword, inputError, inFlight, callArgs, nextId, failedWrites>>

\* The error message handleGenerateKeywords shows for a rejection (App.tsx:107-112).
CaughtMessage(message) ==
  IF Includes(message, NotFoundSignature)
    THEN MsgKeyInvalid
    ELSE IF message = <<>> THEN MsgUnexpected ELSE message

\* Mutant: isLoading is cleared on success only.
LoadingClearedOnSuccessOnly(resolved) == ~resolved

\* isLoading after the finally block (App.tsx:113-115).
LoadingAfterSettle(resolved) == FALSE

\* keywords after setKeywords(generatedKeywords) (App.tsx:103).
KeywordsAfterSuccess(previous, generatedKeywords) == generatedKeywords

\* The sequence without its i-th element.
RemoveAt(seq, i) == SubSeq(seq, 1, i - 1) \o SubSeq(seq, i + 1, Len(seq))

\* What lastArg records of a call that settled: the service outcome and the
\* arguments the call was made with.
SettledCall(outcome, call) ==
  [kind |-> outcome.kind, text |-> outcome.text, isError |-> outcome.isError,
   message |-> outcome.message, seedKeyword |-> call.seedKeyword,
   numKeywords |-> call.numKeywords]

\* handleGenerateKeywords after its await: the service call of one pending
\* generateKeywordsAndMetrics settles with some outcome (App.tsx:102-115,
\* part_001:193-221).
generateSettles ==
  /\ inFlight > 0
  /\ \E i \in 1..Len(callArgs), outcome \in ServiceOutcomes :
       LET r == generateKeywordsAndMetrics(outcome, nextId)
       IN /\ callArgs' = RemoveAt(callArgs, i)
          /\ lastArg' = SettledCall(outcome, callArgs[i])
          /\ nextId + Len(r.value) - 1 <= MaxId
          /\ nextId' = nextId + Len(r.value)
          /\ IF r.ok
               THEN /\ keywords' = KeywordsAfterSuccess(keywords, r.value)
                    /\ error' = error
                    /\ hasApiKey' = hasApiKey
               ELSE /\ keywords' = keywords
                    /\ error' = CaughtMessage(r.message)
                    /\ hasApiKey' =
                         IF Includes(r.message, NotFoundSignature)
                           THEN FALSE ELSE hasApiKey
          /\ isLoading' = LoadingAfterSettle(r.ok)
  /\ inFlight' = inFlight - 1
  /\ lastOp' = "generateSettles"
  /\ UNCHANGED <<savedKeywords, filters, localStorage, host, mounted,
                 checkPending, selectPending, form, failedWrites>>

\* handleSaveKeyword, called from the card of a generated or of a visible
\* saved keyword (App.tsx:118-128, 175-182, 248-255).  The handler checks for
\* a saved id itself, so it is called for saved records too.
handleSaveKeyword ==
  /\ mounted
  /\ \E keywordToSave \in Range(keywords) \cup Range(filteredSavedKeywords) :
       /\ lastArg' = keywordToSave
       /\ IF AlreadySaved(savedKeywords, keywordToSave)
            THEN /\ savedKeywords' = savedKeywords
                 /\ localStorage' = localStorage
                 /\ failedWrites' = failedWrites
            ELSE \E writeOk \in WriteOutcomes :
                 /\ savedKeywords' = NewSaved(savedKeywords, keywordToSave)
                 /\ localStorage' =
                      saveKeywordsToLocalStorage(savedKeywords', localStorage, writeOk)
                 /\ failedWrites' = IF writeOk THEN failedWrites ELSE failedWrites + 1
  /\ lastOp' = "handleSaveKeyword"
  /\ UNCHANGED <<keywords, isLoading, error, hasApiKey, filters, host, mounted,
                 checkPending, selectPending, form, inFlight, callArgs, nextId>>

\* Mutant: the competition filter is left as it is.
CompetitionFilterKept == selectedCompetitionFilter

\* The values handleClearAllSavedKeywords sets the filters to (App.tsx:137-139).
ResetDifficultyFilter == "All"
ResetVolumeFilter == "All"
ResetCompetitionFilter == "All"

\* Mutant: clearing keeps the record saved first.
SavedAfterClearKeepsFirst ==
  IF savedKeywords = <<>> THEN <<>> ELSE <<Head(savedKeywords)>>

\* savedKeywords after setSavedKeywords([]) (App.tsx:135).
SavedAfterClear == <<>>

\* handleClearAllSavedKeywords (App.tsx:134-140).
handleClearAllSavedKeywords ==
  /\ mounted
  /\ savedKeywords' = SavedAfterClear
  /\ \E writeOk \in WriteOutcomes :
       /\ localStorage' = saveKeywordsToLocalStorage(<<>>, localStorage, writeOk)
       /\ failedWrites' = IF writeOk THEN failedWrites ELSE failedWrites + 1
       /\ lastArg' = [writeOk |-> writeOk]
  /\ selectedDifficultyFilter' = ResetDifficultyFilter
  /\ selectedVolumeFilter' = ResetVolumeFilter
  /\ selectedCompetitionFilter' = ResetCompetitionFilter
  /\ lastOp' = "handleClearAllSavedKeywords"
  /\ UNCHANGED <<keywords, isLoading, error, hasApiKey, host, mounted,
                 checkPending, selectPending, form, inFlight, callArgs, nextId>>

\* The onChange handlers of the three filter selects (App.tsx:202, 215, 229),
\* which are rendered while there are saved keywords (App.tsx:193).
setSelectedDifficultyFilter ==
  /\ mounted
  /\ Len(savedKeywords) > 0
  /\ \E option \in Range(difficultyOptions) \cap DifficultyChoices : selectedDifficultyFilter' = option
  /\ lastOp' = "setFilter"
  /\ lastArg' = NoArg
  /\ UNCHANGED <<keywords, savedKeywords, isLoading, error, hasApiKey,
                 selectedVolumeFilter, selectedCompetitionFilter, localStorage,
                 host, mounted, checkPending, selectPending, form, inFlight, callArgs, nextId,
                 failedWrites>>

setSelectedVolumeFilter ==
  /\ mounted
  /\ Len(savedKeywords) > 0
  /\ \E option \in Range(searchVolumeOptions) \cap VolumeChoices : selectedVolumeFilter' = option
  /\ lastOp' = "setFilter"
  /\ lastArg' = NoArg
  /\ UNCHANGED <<keywords, savedKeywords, isLoading, error, hasApiKey,
                 selectedDifficultyFilter, selectedCompetitionFilter, localStorage,
                 host, mounted, checkPending, selectPending, form, inFlight, callArgs, nextId,
                 failedWrites>>

setSelectedCompetitionFilter ==
  /\ mounted
  /\ Len(savedKeywords) > 0
  /\ \E option \in Range(competitionOptions) \cap CompetitionChoices : selectedCompetitionFilter' = option
  /\ lastOp' = "setFilter"
  /\ lastArg' = NoArg
  /\ UNCHANGED <<keywords, savedKeywords, isLoading, error, hasApiKey,
                 selectedDifficultyFilter, selectedVolumeFilter, localStorage,
                 host, mounted, checkPending, selectPending, form, inFlight, callArgs, nextId,
                 failedWrites>>

\* The page is loaded anew: every useState starts over (App.tsx:19-26,
\* part_001:11-13), pending
\* promises of the old page are dropped, localStorage stays.
Reload ==
  /\ mounted
  /\ keywords' = <<>>
  /\ savedKeywords' = <<>>
  /\ isLoading' = FALSE
  /\ error' = NoError
  /\ hasApiKey' = FALSE
  /\ selectedDifficultyFilter' = "All"
  /\ selectedVolumeFilter' = "All"
  /\ selectedCompetitionFilter' = "All"
  /\ mounted' = FALSE
  /\ checkPending' = FALSE
  /\ selectPending' = FALSE
  /\ seedKeyword' = NoText
  /\ numKeywords' = DefaultNumKeywords
  /\ inputError' = NoError
  /\ inFlight' = 0
  /\ callArgs' = <<>>
  /\ failedWrites' = 0
  /\ lastOp' = "reload"
  /\ lastArg' = NoArg
  /\ UNCHANGED <<localStorage, host, nextId>>

Next ==
  \/ Bootstrap
  \/ CheckApiKeyResolve
  \/ SelectApiKey
  \/ SelectApiKeyResolve
  \/ setSeedKeyword
  \/ setNumKeywords
  \/ handleSubmit
  \/ generateSettles
  \/ handleSaveKeyword
  \/ handleClearAllSavedKeywords
  \/ setSelectedDifficultyFilter
  \/ setSelectedVolumeFilter
  \/ setSelectedCompetitionFilter
  \/ Reload

Spec == Init /\ [][Next]_vars

\* The credential and generation side of the program, form included.  The
\* other handlers (saving, clearing, filtering) neither read nor write what
\* these actions write, except that saving reads keywords.
NextGeneration ==
  \/ Bootstrap
  \/ CheckApiKeyResolve
  \/ SelectApiKey
  \/ SelectApiKeyResolve
  \/ setSeedKeyword
  \/ setNumKeywords
  \/ handleSubmit
  \/ generateSettles
  \/ Reload

SpecGeneration == Init /\ [][NextGeneration]_vars

\* The service call of a pending generation returns or fails in the end.
FairGeneration == SpecGeneration /\ WF_vars(generateSettles)

\* The saved-keywords side of the program, on a host without window.aistudio
\* whose process.env.API_KEY is set, so that the key is there from the mount on.
InitEnvKey == Init /\ ~aistudio /\ envApiKey

NextSaved ==
  \/ Bootstrap
  \/ onSubmit
  \/ generateSettles
  \/ handleSaveKeyword
  \/ handleClearAllSavedKeywords
  \/ setSelectedDifficultyFilter
  \/ setSelectedVolumeFilter
  \/ setSelectedCompetitionFilter
  \/ Reload

SpecSaved == InitEnvKey /\ [][NextSaved]_vars

\* Every handler of App on every host, so that a suspended generation meets
\* every other handler; of the form only its submissions that pass.
NextInterleaved ==
  \/ Bootstrap
  \/ CheckApiKeyResolve
  \/ SelectApiKey
  \/ SelectApiKeyResolve
  \/ onSubmit
  \/ generateSettles
  \/ handleSaveKeyword
  \/ handleClearAllSavedKeywords
  \/ setSelectedDifficultyFilter
  \/ setSelectedVolumeFilter
  \/ setSelectedCompetitionFilter
  \/ Reload

SpecInterleaved == Init /\ [][NextInterleaved]_vars

(* ------------------------------ claims -------------------------------- *)
SettledWith(kind) == lastOp = "generateSettles" /\ lastArg.kind = kind

\* Whether a response text is a JSON array whose every element has all the
\* required properties.
SchemaConforms(text) ==
  /\ text.type = "array"
  /\ \A i \in 1..Len(text.items) :
       Range(RequiredFields) \subseteq {text.items[i][m][1] : m \in 1..Len(text.items[i])}

WithoutId(obj) == [k \in DOMAIN obj \ {"id"} |-> obj[k]]

\* C1: when the service fails with an Error whose message contains the
\* "Requested entity was not found." signature, then after the request has
\* settled hasApiKey is false and error is the credential-problem message.
C1_NotFoundClearsCredential ==
  (SettledWith("throw") /\ lastArg.isError
     /\ Includes(lastArg.message, NotFoundSignature))
  => (~hasApiKey /\ error = MsgKeyInvalid)

\* C2: the generation yields records only for a response text that is a JSON
\* array whose every element has all seven required properties; for every
\* other text the request ends with keywords empty and error set.
C2_OnlySchemaConformingAccepted ==
  (SettledWith("text") /\ ~SchemaConforms(lastArg.text))
  => (keywords = <<>> /\ error # NoError)

\* C3: handleSaveKeyword leaves savedKeywords unchanged when a record with the
\* id of its argument is in it, and otherwise appends its argument at the end.
C3_SaveIdempotentById ==
  [][lastOp' = "handleSaveKeyword" =>
       IF \E i \in 1..Len(savedKeywords) : savedKeywords[i].id = lastArg'.id
         THEN savedKeywords' = savedKeywords
         ELSE savedKeywords' = savedKeywords \o <<lastArg'>>]_vars

\* A record was saved, then another, then the first again: the list holds the two.
C3_Witness ==
  /\ lastOp = "handleSaveKeyword"
  /\ Len(savedKeywords) = 2
  /\ savedKeywords[1].id = lastArg.id

\* C4: no two records of savedKeywords have the same id.
C4_SavedIdsUnique ==
  \A i, j \in 1..Len(savedKeywords) :
    i # j => savedKeywords[i].id # savedKeywords[j].id

\* Two saved records were loaded from localStorage by the mount effect.
C4_Witness ==
  /\ lastOp = "bootstrap"
  /\ Len(savedKeywords) = 2

\* C5: filteredSavedKeywords is the subsequence of savedKeywords, in order, of
\* exactly the records that satisfy the three predicates, where "All" accepts
\* every record and any other value asks for equality; with the three filters
\* at "All" it is savedKeywords.
C5_FilteredIsMatchingSubsequence ==
  LET visible == filteredSavedKeywords
      Accepts(selected, value) == selected = "All" \/ value = selected
      Satisfies(kw) ==
        /\ Accepts(selectedDifficultyFilter, kw.difficulty)
        /\ Accepts(selectedVolumeFilter, kw.searchVolume)
        /\ Accepts(selectedCompetitionFilter, kw.competitionLevel)
      matching == {i \in 1..Len(savedKeywords) : Satisfies(savedKeywords[i])}
  IN /\ Len(visible) = Cardinality(matching)
     /\ \E at \in [1..Len(visible) -> matching] :
          /\ \A k \in 1..Len(visible) : visible[k] = savedKeywords[at[k]]
          /\ \A k, l \in 1..Len(visible) : k < l => at[k] < at[l]
     /\ (selectedDifficultyFilter = "All" /\ selectedVolumeFilter = "All"
           /\ selectedCompetitionFilter = "All") => visible = savedKeywords

\* Two filters are set and keep one of two saved records.
C5_Witness ==
  /\ Len(savedKeywords) = 2
  /\ Len(filteredSavedKeywords) = 1
  /\ selectedDifficultyFilter # "All"
  /\ selectedVolumeFilter # "All"

AllFiltersReset ==
  /\ selectedDifficultyFilter = "All"
  /\ selectedVolumeFilter = "All"
  /\ selectedCompetitionFilter = "All"

\* C6, as claimed: after handleClearAllSavedKeywords savedKeywords is empty, the
\* persisted value is the empty collection, the three filters are "All" and
\* filteredSavedKeywords is empty.
C6_ClearEmptiesMemoryAndStore ==
  lastOp = "handleClearAllSavedKeywords" =>
    /\ savedKeywords = <<>>
    /\ loadSavedKeywords(localStorage, <<>>) = <<>>
    /\ AllFiltersReset
    /\ filteredSavedKeywords = <<>>

\* C6, amended: after handleClearAllSavedKeywords savedKeywords is empty, the
\* three filters are "All" and filteredSavedKeywords is empty; the persisted
\* value is the empty collection if the write to localStorage did not throw.
C6_ClearEmptiesMemoryAndWrittenStore ==
  lastOp = "handleClearAllSavedKeywords" =>
    /\ savedKeywords = <<>>
    /\ AllFiltersReset
    /\ filteredSavedKeywords = <<>>
    /\ lastArg.writeOk => localStorage = JSONstringify(<<>>)

\* Saved keywords were cleared and the write went through.
C6_Witness ==
  /\ lastOp = "handleClearAllSavedKeywords"
  /\ lastArg.writeOk
  /\ localStorage = JSONstringify(<<>>)
  /\ keywords # <<>>

\* C7: while no write to localStorage has thrown since the mount, loading the
\* stored value yields savedKeywords, record for record and in order, and after
\* handleSaveKeyword or handleClearAllSavedKeywords the stored value is the
\* serialization of savedKeywords.
C7_StoreMirrorsSaved ==
  (mounted /\ failedWrites = 0) =>
    /\ loadSavedKeywords(localStorage, <<>>) = savedKeywords
    /\ lastOp \in {"handleSaveKeyword", "handleClearAllSavedKeywords"}
         => localStorage = JSONstringify(savedKeywords)

\* Two records were saved and both writes went through.
C7_Witness ==
  /\ lastOp = "handleSaveKeyword"
  /\ failedWrites = 0
  /\ Len(savedKeywords) = 2
  /\ savedKeywords[2].id = lastArg.id
  /\ JSONparse(localStorage).value = savedKeywords

C9_GenerationCompletes ==
  (inFlight > 0) ~> (inFlight = 0 /\ ~isLoading)

\* A generation failed and isLoading is false again.
C9_Witness ==
  /\ SettledWith("throw")
  /\ inFlight = 0
  /\ ~isLoading

\* What C10 says of keywords and isLoading after a response that was accepted.
BatchIsResponse ==
  LET parsed == JSONparse(lastArg.text).value
  IN /\ Len(keywords) = Len(parsed)
     /\ \A i \in 1..Len(keywords) :
          /\ WithoutId(keywords[i]) = WithoutId(parsed[i])
          /\ "id" \in DOMAIN keywords[i]
          /\ "id" \in DOMAIN parsed[i] => keywords[i].id # parsed[i].id
     /\ \A i, j \in 1..Len(keywords) : i # j => keywords[i].id # keywords[j].id
     /\ ~isLoading

Accepted == SettledWith("text") /\ lastArg.text.type = "array"

\* C10, as claimed: after a successful generation keywords holds the records of
\* the response, as many and in the same order, each with an id of its own,
\* error is empty and isLoading is false.
C10_SuccessReplacesBatchAndNoError ==
  Accepted => (BatchIsResponse /\ error = NoError)

\* C10, amended: after a successful generation keywords holds the records of
\* the response, as many and in the same order, each with an id of its own, and
\* isLoading is false; error is empty unless selectApiKey failed while the
\* generation awaited the service.
C10_SuccessReplacesBatch ==
  Accepted => (BatchIsResponse /\ error \in {NoError, MsgSelectFailed})

\* A response of two objects was accepted.
C10_Witness ==
  /\ Accepted
  /\ Len(keywords) = 2
  /\ error = NoError
  /\ ~isLoading

\* C11: after a successful generation keywords holds no more records than the
\* count the call was made with, however long the array of the response is.
C11_BatchWithinCount ==
  Accepted => Len(keywords) <= lastArg.numKeywords

EnumeratedValuesOnly(list) ==
  \A i \in 1..Len(list) :
    /\ list[i].difficulty \in DifficultyValues
    /\ list[i].competitionLevel \in CompetitionValues
    /\ list[i].searchVolume \in SearchVolumeValues

\* C12: every record of keywords and of savedKeywords has its difficulty and
\* its competitionLevel among Low, Medium, High and Very High and its
\* searchVolume among the six declared ranges.
C12_EnumeratedFieldsDeclared ==
  EnumeratedValuesOnly(keywords) /\ EnumeratedValuesOnly(savedKeywords)

\* A text of white space only, the empty text included.
IsBlank(text) == \A i \in 1..Len(text) : text[i] \in {" ", "\t", "\n"}

FieldsInvalid(seed, count) == IsBlank(seed) \/ count < 1 \/ count > 20

CountProbes == {0, 1, 20, 21}

\* C13: a submission of the form with a seed that is empty or white space
\* only, or with a count outside 1..20, sets the inline error and calls nothing:
\* no call starts and App's state stays as it is; every call awaiting the
\* service was made with a seed that is not blank and a count within 1..20.
C13_InvalidSubmissionRejected ==
  [][/\ \A i \in 1..Len(callArgs') :
          ~FieldsInvalid(callArgs'[i].seedKeyword, callArgs'[i].numKeywords)
     /\ \A seed \in SeedChoices, count \in CountProbes :
          FieldsInvalid(seed, count) <=> ValidationError(seed, count) # NoError
     /\ (/\ lastOp' \in {"handleSubmit:rejected", "handleGenerateKeywords:noKey",
                          "handleGenerateKeywords:await"}
         /\ FieldsInvalid(seedKeyword, numKeywords))
          => /\ lastOp' = "handleSubmit:rejected"
             /\ inputError' # NoError
             /\ UNCHANGED <<keywords, isLoading, error, hasApiKey, inFlight,
                            callArgs, nextId>>]_vars

\* A seed of one blank was submitted and turned down.
C13_Witness ==
  /\ lastOp = "handleSubmit:rejected"
  /\ seedKeyword = BlankText
  /\ inputError = MsgSeedRequired
  /\ inFlight = 0
  /\ hasApiKey

\* C14: once the mount effect has run, a step leaves savedKeywords as it is,
\* or is handleSaveKeyword appending its argument at the end, or is
\* handleClearAllSavedKeywords emptying it; requesting a generation, its
\* settling and setting a filter leave savedKeywords as it is.
C14_SavedAppendOrClearOnly ==
  [][(mounted /\ mounted') =>
       /\ \/ savedKeywords' = savedKeywords
          \/ /\ lastOp' = "handleSaveKeyword"
             /\ savedKeywords' = Append(savedKeywords, lastArg')
          \/ /\ lastOp' = "handleClearAllSavedKeywords"
             /\ savedKeywords' = <<>>
       /\ lastOp' \in {"handleGenerateKeywords:noKey", "handleGenerateKeywords:await",
                        "generateSettles", "setFilter"}
            => savedKeywords' = savedKeywords]_vars

\* Two records were saved and stored, then cleared; the write of the clearing
\* threw, so the store still shows the two.
C14_Witness ==
  /\ lastOp = "handleClearAllSavedKeywords"
  /\ savedKeywords = <<>>
  /\ ~lastArg.writeOk
  /\ localStorage.type = "array"
  /\ Len(localStorage.items) = 2

\* C15: at most one generation call awaits the service, and isLoading is true
\* whenever one does.
C15_OneCallInFlightWhileLoading ==
  /\ inFlight <= 1
  /\ Len(callArgs) = inFlight
  /\ inFlight > 0 => isLoading

\* selectApiKey resolved while a generation call awaited the service.
C15_Witness ==
  /\ lastOp = "selectApiKeyResolve"
  /\ inFlight = 1
  /\ isLoading

\* C16: handleGenerateKeywords called while hasApiKey is false empties
\* keywords although it starts no call.
C16_RejectedRequestClearsBatch ==
  [][(~hasApiKey /\ lastOp' \in {"handleGenerateKeywords:noKey",
                                  "handleGenerateKeywords:await"})
       => /\ keywords' = <<>>
          /\ UNCHANGED <<inFlight, callArgs, nextId>>]_vars

\* A request was turned down for want of a credential while a batch was on display.
C16_Witness ==
  /\ lastOp = "handleGenerateKeywords:noKey"
  /\ lastArg.discarded > 0
  /\ keywords = <<>>
  /\ inFlight = 0

====
